---- MODULE Spec2Model ----
(***************************************************************************)
(* The recording-to-analysis pipeline of src/src/App.jsx (component App):  *)
(* the React state and refs of the component, the record/stop button, the  *)
(* MediaRecorder callbacks and the decode -> transcribe -> analyze chain.  *)
(*                                                                         *)
(* A "session" is one accepted call of startRecording.  Each call owns the *)
(* closure it was created in (the apiKey of the render the click was       *)
(* dispatched in), its MediaStream and its MediaRecorder; recorderRef,     *)
(* chunksRef and the React state are shared by all calls.                  *)
(*                                                                         *)
(* React state has two copies: the value last set (isRecording, ...) and   *)
(* the value of the last committed render (view), which is what the button *)
(* guard and the handlers' closures read.  Updates made inside a click or  *)
(* change handler commit with the handler; updates made from an awaited    *)
(* continuation or a recorder callback commit in a later step (Render).    *)
(***************************************************************************)
EXTENDS Integers, Sequences, FiniteSets

\* Number of startRecording calls the model follows.
MaxSessions == 2

Sessions == 1 .. MaxSessions
Credentials == {"k1"}
NoKey == ""

\* No request has been sent.
NoRequest == [text |-> 0, key |-> NoKey]

\* Status texts (setStatus arguments).
StLoading == "Loading Whisper model..."
StReady == "Model ready"
StLoadError == "Error loading model"
StRecording == "Recording..."
StTranscribing == "Transcribing audio..."
StTranscriptionError == "Transcription error"
StAnalyzing == "Transcription analysis in progress..."
StDone == "Transcription analysis done!"
StEmpty == ""

VARIABLES
    pc,             \* session -> where that startRecording call / pipeline is
    cred,           \* session -> apiKey captured by the closure of the click
    errKind,        \* session -> the error that ended it ("none" if none)
    resp,           \* session -> what the analysis request returned
    calls,          \* session -> network calls issued by its analysis call
    request,        \* session -> NoRequest or the text and key of its request
    streamLive,     \* session -> "none" | "live" | "ended": its MediaStream
    events,         \* session -> recorder events queued and not yet fired
    blob,           \* session -> chunks of the Blob its onstop built, while read
    recorderRef,    \* recorderRef.current: 0 (null) or the session's recorder
    chunksRef,      \* chunksRef.current: sequence of chunks (by recorder)
    stream,         \* state stream: 0 (null) or the session's MediaStream
    isRecording,
    isModelLoading,
    isAnalyzing,
    apiKey,
    status,
    transcription,  \* 0 ('') or the session whose transcript is published
    analysis,       \* 0 (initial) or the session whose result is published
    transcriberRef, \* transcriberRef.current is set
    modelPc,        \* "loading" | "ready" | "failed": initTranscriber
    view,           \* state as of the last committed render
    stopThrew,      \* a stopRecording call has thrown
    decoded,        \* the AudioBuffer decodeAudioData returned
    audio,          \* the samples handed to the transcriber
    dmI,            \* the downmix loop's i
    dmPc            \* "idle" | "decoded" | "loop" | "done": the downmix

vars == <<pc, cred, errKind, resp, calls, request, streamLive, events, blob,
          recorderRef, chunksRef, stream, isRecording, isModelLoading,
          isAnalyzing, apiKey, status, transcription, analysis,
          transcriberRef, modelPc, view, stopThrew,
          decoded, audio, dmI, dmPc>>

\* The downmix of onloadend, followed sample by sample.
dmVars == <<decoded, audio, dmI, dmPc>>

\* No buffer is being followed through the downmix.
DownmixIdle ==
    /\ decoded = [numberOfChannels |-> 0, length |-> 0, channels |-> <<>>]
    /\ audio = <<>>
    /\ dmI = 0
    /\ dmPc = "idle"

\* Everything but the record of stopRecording throwing.
programVars == <<pc, cred, errKind, resp, calls, request, streamLive, events, blob,
          recorderRef, chunksRef, stream, isRecording, isModelLoading,
          isAnalyzing, apiKey, status, transcription, analysis,
          transcriberRef, modelPc, view>>

sessionVars == <<pc, cred, errKind, resp, calls, request, streamLive, events,
                 blob>>

\* The state a render reads.
Snapshot(rec, load, ana, key, str) ==
    [isRecording |-> rec, isModelLoading |-> load, isAnalyzing |-> ana,
     apiKey |-> key, stream |-> str]

\* useState/useRef initial values, and the mount effect run up to its await.
Init ==
    /\ pc = [s \in Sessions |-> "idle"]
    /\ cred = [s \in Sessions |-> NoKey]
    /\ errKind = [s \in Sessions |-> "none"]
    /\ resp = [s \in Sessions |-> "none"]
    /\ calls = [s \in Sessions |-> 0]
    /\ request = [s \in Sessions |-> NoRequest]
    /\ streamLive = [s \in Sessions |-> "none"]
    /\ events = [s \in Sessions |-> <<>>]
    /\ blob = [s \in Sessions |-> <<>>]
    /\ recorderRef = 0
    /\ chunksRef = <<>>
    /\ stream = 0
    /\ isRecording = FALSE
    /\ isModelLoading = TRUE
    /\ isAnalyzing = FALSE
    /\ apiKey = NoKey
    /\ status = StLoading
    /\ transcription = 0
    /\ analysis = 0
    /\ transcriberRef = FALSE
    /\ modelPc = "loading"
    /\ view = Snapshot(FALSE, TRUE, FALSE, NoKey, 0)
    /\ stopThrew = FALSE
    /\ DownmixIdle

\* React commits the pending state: handlers and guard now see it.
Render ==
    /\ UNCHANGED dmVars
    /\ view # Snapshot(isRecording, isModelLoading, isAnalyzing, apiKey, stream)
    /\ view' = Snapshot(isRecording, isModelLoading, isAnalyzing, apiKey, stream)
    /\ UNCHANGED <<sessionVars, recorderRef, chunksRef, stream, isRecording,
                   isModelLoading, isAnalyzing, apiKey, status, transcription,
                   analysis, transcriberRef, modelPc, stopThrew>>

\* initTranscriber: pipeline() resolved.
ModelLoaded ==
    /\ UNCHANGED dmVars
    /\ modelPc = "loading"
    /\ modelPc' = "ready"
    /\ transcriberRef' = TRUE
    /\ isModelLoading' = FALSE
    /\ status' = StReady
    /\ UNCHANGED <<sessionVars, recorderRef, chunksRef, stream, isRecording,
                   isAnalyzing, apiKey, transcription, analysis, view,
                   stopThrew>>

\* initTranscriber: pipeline() rejected.
ModelLoadFailed ==
    /\ UNCHANGED dmVars
    /\ modelPc = "loading"
    /\ modelPc' = "failed"
    /\ status' = StLoadError
    /\ UNCHANGED <<sessionVars, recorderRef, chunksRef, stream, isRecording,
                   isModelLoading, isAnalyzing, apiKey, transcription,
                   analysis, transcriberRef, view, stopThrew>>

\* The credential input's onChange.
SetApiKey(k) ==
    /\ UNCHANGED dmVars
    /\ k # apiKey
    /\ apiKey' = k
    /\ view' = Snapshot(isRecording, isModelLoading, isAnalyzing, k, stream)
    /\ UNCHANGED <<sessionVars, recorderRef, chunksRef, stream, isRecording,
                   isModelLoading, isAnalyzing, status, transcription,
                   analysis, transcriberRef, modelPc, stopThrew>>

\* Disabled with the model-loading test left out.
DisabledIgnoringModel == view.isAnalyzing \/ view.apiKey = NoKey

\* The button's disabled attribute.
Disabled == view.isModelLoading \/ view.isAnalyzing \/ view.apiKey = NoKey

Started == {s \in Sessions : pc[s] # "idle"}

\* startRecording, up to its await: the button shows Record and is enabled.
ClickStart ==
    /\ UNCHANGED dmVars
    /\ ~Disabled
    /\ ~view.isRecording
    /\ \E s \in Sessions :
        /\ s = Cardinality(Started) + 1
        /\ pc' = [pc EXCEPT ![s] = "acquiring"]
        /\ cred' = [cred EXCEPT ![s] = view.apiKey]
    /\ UNCHANGED <<errKind, resp, calls, request, streamLive, events, blob,
                   recorderRef, chunksRef, stream, isRecording,
                   isModelLoading, isAnalyzing, apiKey, status, transcription,
                   analysis, transcriberRef, modelPc, view, stopThrew>>

\* getUserMedia rejected: startRecording rejects, nothing catches it.
GetUserMediaRejected(s) ==
    /\ UNCHANGED dmVars
    /\ pc[s] = "acquiring"
    /\ pc' = [pc EXCEPT ![s] = "error"]
    /\ errKind' = [errKind EXCEPT ![s] = "DeviceError"]
    /\ UNCHANGED <<cred, resp, calls, request, streamLive, events, blob,
                   recorderRef, chunksRef, stream, isRecording,
                   isModelLoading, isAnalyzing, apiKey, status, transcription,
                   analysis, transcriberRef, modelPc, view, stopThrew>>

\* GetUserMediaResolved with a start that clears the published transcript
\* and analysis result.
GetUserMediaResolvedClearing(s, ctorOk) ==
    /\ UNCHANGED dmVars
    /\ pc[s] = "acquiring"
    /\ streamLive' = [streamLive EXCEPT ![s] = "live"]
    /\ IF ctorOk
       THEN /\ recorderRef' = s
            /\ stream' = s
            /\ chunksRef' = <<>>
            /\ pc' = [pc EXCEPT ![s] = "recording"]
            /\ isRecording' = TRUE
            /\ status' = StRecording
            /\ transcription' = 0
            /\ analysis' = 0
            /\ UNCHANGED errKind
       ELSE /\ pc' = [pc EXCEPT ![s] = "error"]
            /\ errKind' = [errKind EXCEPT ![s] = "RecorderError"]
            /\ UNCHANGED <<recorderRef, stream, chunksRef, isRecording, status,
                           transcription, analysis>>
    /\ UNCHANGED <<cred, resp, calls, request, events, blob, isModelLoading,
                   isAnalyzing, apiKey, transcriberRef, modelPc, view,
                   stopThrew>>

\* startRecording after its await.  ctorOk: new MediaRecorder(...) returned
\* (it throws NotSupportedError where the mimeType is not supported).
GetUserMediaResolved(s, ctorOk) ==
    /\ UNCHANGED dmVars
    /\ pc[s] = "acquiring"
    /\ streamLive' = [streamLive EXCEPT ![s] = "live"]
    /\ IF ctorOk
       THEN /\ recorderRef' = s
            /\ stream' = s
            /\ chunksRef' = <<>>
            /\ pc' = [pc EXCEPT ![s] = "recording"]
            /\ isRecording' = TRUE
            /\ status' = StRecording
            /\ UNCHANGED errKind
       ELSE /\ pc' = [pc EXCEPT ![s] = "error"]
            /\ errKind' = [errKind EXCEPT ![s] = "RecorderError"]
            /\ UNCHANGED <<recorderRef, stream, chunksRef, isRecording,
                           status>>
    /\ UNCHANGED <<cred, resp, calls, request, events, blob, isModelLoading,
                   isAnalyzing, apiKey, transcription, analysis,
                   transcriberRef, modelPc, view, stopThrew>>

\* stopRecording, with the isRecording and stream of the committed render.
\* requestData() on an inactive recorder throws InvalidStateError, and the
\* rest of the body is skipped.
stopRecording ==
    IF recorderRef # 0 /\ view.isRecording
    THEN IF pc[recorderRef] # "recording"
         THEN /\ stopThrew' = TRUE
              /\ UNCHANGED programVars
         ELSE /\ UNCHANGED stopThrew
              /\ pc' = [pc EXCEPT ![recorderRef] = "stopping"]
              /\ events' = [events EXCEPT ![recorderRef] = <<"data", "stop">>]
              /\ isRecording' = FALSE
              /\ status' = StEmpty
              /\ streamLive' = IF view.stream # 0
                               THEN [streamLive EXCEPT ![view.stream] = "ended"]
                               ELSE streamLive
              /\ view' = Snapshot(FALSE, isModelLoading, isAnalyzing, apiKey, stream)
              /\ UNCHANGED <<cred, errKind, resp, calls, request, blob,
                             recorderRef, chunksRef, stream, isModelLoading,
                             isAnalyzing, apiKey, transcription, analysis,
                             transcriberRef, modelPc>>
    ELSE UNCHANGED vars

\* The button shows Stop and is enabled.
ClickStop ==
    /\ UNCHANGED dmVars
    /\ ~Disabled
    /\ view.isRecording
    /\ stopRecording

\* The stop command while the component is not recording.
StopCommandIdle ==
    /\ UNCHANGED dmVars
    /\ ~view.isRecording
    /\ stopRecording

\* ondataavailable for the event queued by requestData().
DataAvailable(s, nonEmpty) ==
    /\ UNCHANGED dmVars
    /\ events[s] # <<>>
    /\ Head(events[s]) = "data"
    /\ events' = [events EXCEPT ![s] = Tail(events[s])]
    /\ chunksRef' = IF nonEmpty THEN Append(chunksRef, s) ELSE chunksRef
    /\ UNCHANGED <<pc, cred, errKind, resp, calls, request, streamLive, blob,
                   recorderRef, stream, isRecording, isModelLoading,
                   isAnalyzing, apiKey, status, transcription, analysis,
                   transcriberRef, modelPc, view, stopThrew>>

\* StopEvents with an onstop that goes on only when there are chunks.
StopEventsSkippingEmpty(s, nonEmpty) ==
    /\ chunksRef' = IF nonEmpty THEN Append(chunksRef, s) ELSE chunksRef
    /\ IF chunksRef' = <<>>
       THEN UNCHANGED <<status, streamLive, blob, pc>>
       ELSE /\ status' = StTranscribing
            /\ streamLive' = IF recorderRef # 0
                             THEN [streamLive EXCEPT ![recorderRef] = "ended"]
                             ELSE streamLive
            /\ blob' = [blob EXCEPT ![s] = chunksRef']
            /\ pc' = [pc EXCEPT ![s] = "decoding"]
    /\ UNCHANGED <<cred, errKind, resp, calls, request, recorderRef, stream,
                   isRecording, isModelLoading, isAnalyzing, apiKey,
                   transcription, analysis, transcriberRef, modelPc, view,
                   stopThrew>>

\* ondataavailable with the recorder's last data and then onstop (through
\* readAsArrayBuffer and onloadend up to the await of decodeAudioData): the
\* platform fires the two events in one task.
StopEvents(s, nonEmpty) ==
    /\ chunksRef' = IF nonEmpty THEN Append(chunksRef, s) ELSE chunksRef
    /\ status' = StTranscribing
    /\ streamLive' = IF recorderRef # 0
                     THEN [streamLive EXCEPT ![recorderRef] = "ended"]
                     ELSE streamLive
    /\ blob' = [blob EXCEPT ![s] = chunksRef']
    /\ pc' = [pc EXCEPT ![s] = "decoding"]
    /\ UNCHANGED <<cred, errKind, resp, calls, request, recorderRef, stream,
                   isRecording, isModelLoading, isAnalyzing, apiKey,
                   transcription, analysis, transcriberRef, modelPc, view,
                   stopThrew>>

\* The task queued by recorder.stop().
OnStop(s, nonEmpty) ==
    /\ UNCHANGED dmVars
    /\ events[s] # <<>>
    /\ Head(events[s]) = "stop"
    /\ events' = [events EXCEPT ![s] = Tail(events[s])]
    /\ StopEvents(s, nonEmpty)

\* The platform stops a recorder all of whose tracks have ended: one task
\* makes it inactive and fires dataavailable and stop.  Tracks end here only
\* by the track.stop() calls of onstop and stopRecording.
TracksEndedStop(s, nonEmpty) ==
    /\ UNCHANGED dmVars
    /\ pc[s] = "recording"
    /\ streamLive[s] = "ended"
    /\ UNCHANGED events
    /\ StopEvents(s, nonEmpty)

\* decodeAudioData settled (the Blob has been read and is dropped); on
\* success the downmix and the transcriber check run and the transcriber is
\* called.
DecodeDone(s, ok) ==
    /\ UNCHANGED dmVars
    /\ pc[s] = "decoding"
    /\ IF ~ok
       THEN /\ pc' = [pc EXCEPT ![s] = "error"]
            /\ errKind' = [errKind EXCEPT ![s] = "DecodeError"]
       ELSE IF ~transcriberRef
       THEN /\ pc' = [pc EXCEPT ![s] = "error"]
            /\ errKind' = [errKind EXCEPT ![s] = "TranscriberNotInitialized"]
       ELSE /\ pc' = [pc EXCEPT ![s] = "transcribing"]
            /\ UNCHANGED errKind
    /\ blob' = [blob EXCEPT ![s] = <<>>]
    /\ UNCHANGED <<cred, resp, calls, request, streamLive, events, recorderRef,
                   chunksRef, stream, isRecording, isModelLoading, isAnalyzing,
                   apiKey, status, transcription, analysis, transcriberRef,
                   modelPc, view, stopThrew>>

\* AnalysisInput taking the transcription state of the closure, not the
\* transcriber's result.
AnalysisInputFromState(s) == transcription

\* The argument of analyzeWithOpenAI in onloadend: result.text, the text the
\* transcriber returned for session s (a text is named by its session).
AnalysisInput(s) == s

\* analyzeWithOpenAI with the apiKey state as it is now, not the one of the
\* closure.
analyzeWithCurrentKey(s) ==
    IF apiKey = NoKey
    THEN /\ pc' = [pc EXCEPT ![s] = "error"]
         /\ errKind' = [errKind EXCEPT ![s] = "ConfigError"]
         /\ UNCHANGED <<isAnalyzing, calls, request>>
    ELSE /\ isAnalyzing' = TRUE
         /\ calls' = [calls EXCEPT ![s] = calls[s] + 1]
         /\ request' = [request EXCEPT
                            ![s] = [text |-> AnalysisInput(s), key |-> apiKey]]
         /\ pc' = [pc EXCEPT ![s] = "analyzing"]
         /\ UNCHANGED errKind

\* analyzeWithOpenAI with the key check left out: the request goes out.
analyzeWithoutKeyCheck(s) ==
    /\ isAnalyzing' = TRUE
    /\ calls' = [calls EXCEPT ![s] = calls[s] + 1]
    /\ request' = [request EXCEPT
                       ![s] = [text |-> AnalysisInput(s), key |-> cred[s]]]
    /\ pc' = [pc EXCEPT ![s] = "analyzing"]
    /\ UNCHANGED errKind

\* analyzeWithOpenAI(text) of the closure of session s, up to its await of
\* fetch: the key check, setIsAnalyzing(true), the request.
analyzeWithOpenAI(s) ==
    IF cred[s] = NoKey
    THEN /\ pc' = [pc EXCEPT ![s] = "error"]
         /\ errKind' = [errKind EXCEPT ![s] = "ConfigError"]
         /\ UNCHANGED <<isAnalyzing, calls, request>>
    ELSE /\ isAnalyzing' = TRUE
         /\ calls' = [calls EXCEPT ![s] = calls[s] + 1]
         /\ request' = [request EXCEPT
                            ![s] = [text |-> AnalysisInput(s), key |-> cred[s]]]
         /\ pc' = [pc EXCEPT ![s] = "analyzing"]
         /\ UNCHANGED errKind

\* TranscribeDone going on after a failure with an undefined transcript
\* (result?.text): the transcript is published as undefined (0) and the
\* analysis is invoked.
TranscribeDoneContinuing(s, ok) ==
    /\ UNCHANGED dmVars
    /\ pc[s] = "transcribing"
    /\ chunksRef' = <<>>
    /\ transcription' = IF ok THEN s ELSE 0
    /\ status' = StAnalyzing
    /\ analyzeWithOpenAI(s)
    /\ UNCHANGED <<cred, resp, streamLive, events, blob, recorderRef, stream,
                   isRecording, isModelLoading, apiKey, analysis,
                   transcriberRef, modelPc, view, stopThrew>>

\* The transcriber settled.  On failure the catch sets the status, result
\* stays undefined and result.text throws after the chunk reset.
TranscribeDone(s, ok) ==
    /\ UNCHANGED dmVars
    /\ pc[s] = "transcribing"
    /\ chunksRef' = <<>>
    /\ IF ~ok
       THEN /\ status' = StTranscriptionError
            /\ pc' = [pc EXCEPT ![s] = "error"]
            /\ errKind' = [errKind EXCEPT ![s] = "TranscriptionError"]
            /\ UNCHANGED <<transcription, isAnalyzing, calls, request>>
       ELSE /\ transcription' = s
            /\ status' = StAnalyzing
            /\ analyzeWithOpenAI(s)
    /\ UNCHANGED <<cred, resp, streamLive, events, blob, recorderRef, stream,
                   isRecording, isModelLoading, apiKey, analysis,
                   transcriberRef, modelPc, view, stopThrew>>

Responses == {"ok", "network", "http", "badjson"}

\* The error analyzeWithOpenAI rethrows for a response.
ResponseError(r) ==
    CASE r = "network" -> "NetworkError"
      [] r = "http" -> "ServiceError"
      [] r = "badjson" -> "FormatError"
      [] OTHER -> "none"

\* AnalysisReturned with one retry of a failed request.
AnalysisReturnedWithRetry(s, r) ==
    /\ resp' = [resp EXCEPT ![s] = r]
    /\ IF r = "ok"
       THEN /\ analysis' = s
            /\ status' = StDone
            /\ isAnalyzing' = FALSE
            /\ pc' = [pc EXCEPT ![s] = "done"]
            /\ UNCHANGED <<errKind, calls>>
       ELSE IF calls[s] < 2
       THEN /\ calls' = [calls EXCEPT ![s] = calls[s] + 1]
            /\ UNCHANGED <<pc, errKind, analysis, status, isAnalyzing>>
       ELSE /\ pc' = [pc EXCEPT ![s] = "error"]
            /\ errKind' = [errKind EXCEPT ![s] = ResponseError(r)]
            /\ isAnalyzing' = FALSE
            /\ UNCHANGED <<analysis, status, calls>>

\* AnalysisReturned with the parse failure caught and the result published.
AnalysisReturnedPublishingUnparsed(s, r) ==
    /\ resp' = [resp EXCEPT ![s] = r]
    /\ isAnalyzing' = FALSE
    /\ IF r \in {"ok", "badjson"}
       THEN /\ analysis' = s
            /\ status' = StDone
            /\ pc' = [pc EXCEPT ![s] = "done"]
            /\ UNCHANGED errKind
       ELSE /\ pc' = [pc EXCEPT ![s] = "error"]
            /\ errKind' = [errKind EXCEPT ![s] = ResponseError(r)]
            /\ UNCHANGED <<analysis, status>>
    /\ UNCHANGED calls

\* AnalysisReturned without the finally: the flag is cleared on success only.
AnalysisReturnedNoFinally(s, r) ==
    /\ resp' = [resp EXCEPT ![s] = r]
    /\ IF r = "ok"
       THEN /\ analysis' = s
            /\ status' = StDone
            /\ isAnalyzing' = FALSE
            /\ pc' = [pc EXCEPT ![s] = "done"]
            /\ UNCHANGED errKind
       ELSE /\ pc' = [pc EXCEPT ![s] = "error"]
            /\ errKind' = [errKind EXCEPT ![s] = ResponseError(r)]
            /\ UNCHANGED <<analysis, status, isAnalyzing>>
    /\ UNCHANGED calls

\* The rest of analyzeWithOpenAI and of onloadend once fetch settled with r.
AnalysisReturned(s, r) ==
    /\ resp' = [resp EXCEPT ![s] = r]
    /\ isAnalyzing' = FALSE
    /\ IF r = "ok"
       THEN /\ analysis' = s
            /\ status' = StDone
            /\ pc' = [pc EXCEPT ![s] = "done"]
            /\ UNCHANGED errKind
       ELSE /\ pc' = [pc EXCEPT ![s] = "error"]
            /\ errKind' = [errKind EXCEPT ![s] = ResponseError(r)]
            /\ UNCHANGED <<analysis, status>>
    /\ UNCHANGED calls

FetchDone(s, r) ==
    /\ UNCHANGED dmVars
    /\ pc[s] = "analyzing"
    /\ AnalysisReturned(s, r)
    /\ UNCHANGED <<cred, request, streamLive, events, blob, recorderRef,
                   chunksRef, stream, isRecording, isModelLoading, apiKey,
                   transcription, transcriberRef, modelPc, view, stopThrew>>

Next ==
    \/ Render
    \/ ModelLoaded
    \/ ModelLoadFailed
    \/ \E k \in Credentials \cup {NoKey} : SetApiKey(k)
    \/ ClickStart
    \/ ClickStop
    \/ StopCommandIdle
    \/ \E s \in Sessions : GetUserMediaRejected(s)
    \/ \E s \in Sessions, ctorOk \in BOOLEAN : GetUserMediaResolved(s, ctorOk)
    \/ \E s \in Sessions, nonEmpty \in BOOLEAN : DataAvailable(s, nonEmpty)
    \/ \E s \in Sessions, nonEmpty \in BOOLEAN : OnStop(s, nonEmpty)
    \/ \E s \in Sessions, nonEmpty \in BOOLEAN : TracksEndedStop(s, nonEmpty)
    \/ \E s \in Sessions, ok \in BOOLEAN : DecodeDone(s, ok)
    \/ \E s \in Sessions, ok \in BOOLEAN : TranscribeDone(s, ok)
    \/ \E s \in Sessions, r \in Responses : FetchDone(s, r)

Spec == Init /\ [][Next]_vars

\* The event loop runs every task it has queued and every promise settles:
\* the recorder's events are delivered, and decodeAudioData, the transcriber
\* and fetch each resolve or reject.  Nothing is assumed of the user's
\* commands, of renders or of the model load.
Fairness ==
    \A s \in Sessions :
        /\ WF_vars(\E nonEmpty \in BOOLEAN : DataAvailable(s, nonEmpty))
        /\ WF_vars(\E nonEmpty \in BOOLEAN : OnStop(s, nonEmpty))
        /\ WF_vars(\E ok \in BOOLEAN : DecodeDone(s, ok))
        /\ WF_vars(\E ok \in BOOLEAN : TranscribeDone(s, ok))
        /\ WF_vars(\E r \in Responses : FetchDone(s, r))

SpecFair == Spec /\ Fairness

(***************************************************************************)
(* The analysis stage on its own: every session stands at the end of its   *)
(* transcriber call, with any credential in its closure, the empty one     *)
(* included (which the guarded button never lets through).                 *)
(***************************************************************************)
InitInvoker ==
    /\ pc = [s \in Sessions |-> "transcribing"]
    /\ cred \in [Sessions -> Credentials \cup {NoKey}]
    /\ errKind = [s \in Sessions |-> "none"]
    /\ resp = [s \in Sessions |-> "none"]
    /\ calls = [s \in Sessions |-> 0]
    /\ request = [s \in Sessions |-> NoRequest]
    /\ streamLive = [s \in Sessions |-> "ended"]
    /\ events = [s \in Sessions |-> <<>>]
    /\ blob = [s \in Sessions |-> <<>>]
    /\ recorderRef = MaxSessions
    /\ chunksRef = <<>>
    /\ stream = MaxSessions
    /\ isRecording = FALSE
    /\ isModelLoading = FALSE
    /\ isAnalyzing = FALSE
    /\ apiKey \in Credentials \cup {NoKey}
    /\ status = StTranscribing
    /\ transcription = 0
    /\ analysis = 0
    /\ transcriberRef = TRUE
    /\ modelPc = "ready"
    /\ view = Snapshot(FALSE, FALSE, FALSE, apiKey, MaxSessions)
    /\ stopThrew = FALSE
    /\ DownmixIdle

NextInvoker ==
    \/ Render
    \/ \E k \in Credentials \cup {NoKey} : SetApiKey(k)
    \/ \E s \in Sessions, ok \in BOOLEAN : TranscribeDone(s, ok)
    \/ \E s \in Sessions, r \in Responses : FetchDone(s, r)

SpecInvoker == InitInvoker /\ [][NextInvoker]_vars

(***************************************************************************)
(* The downmix of onloadend on its own: decodeAudioData has returned a     *)
(* buffer of any channel count and any samples of [-1, 1].  A sample is an *)
(* integer in units of 1/2000, so that SCALING_FACTOR * (l + r) / 2, with  *)
(* SCALING_FACTOR = Math.sqrt(2) taken as Sqrt2Milli / 1000 (rounded       *)
(* down), is an integer for the samples drawn.                             *)
(***************************************************************************)

\* Frames per channel of the decoded buffer.
MaxFrames == 2

\* Math.sqrt(2), in thousandths, rounded down.
Sqrt2Milli == 1414

\* The sample value 1.0.
SampleOne == 2 * 1000

\* -1, 0, 0.5 and 1.
Samples == {-SampleOne, 0, 1000, SampleOne}

ChannelCounts == {1, 2, 3}

\* The AudioBuffers of c channels and n frames decodeAudioData may return:
\* every channel has length frames.
DecodedBuffers(c, n) ==
    {[numberOfChannels |-> c, length |-> n, channels |-> ch] :
        ch \in [1 .. c -> [1 .. n -> Samples]]}

\* new Float32Array(n).
Zeros(n) == [i \in 1 .. n |-> 0]

\* SCALING_FACTOR * (l + r) / 2.
ScaledSum(l, r) == (Sqrt2Milli * (l + r)) \div (2 * 1000)

InitDownmix ==
    /\ pc = [s \in Sessions |-> "idle"]
    /\ cred = [s \in Sessions |-> NoKey]
    /\ errKind = [s \in Sessions |-> "none"]
    /\ resp = [s \in Sessions |-> "none"]
    /\ calls = [s \in Sessions |-> 0]
    /\ request = [s \in Sessions |-> NoRequest]
    /\ streamLive = [s \in Sessions |-> "none"]
    /\ events = [s \in Sessions |-> <<>>]
    /\ blob = [s \in Sessions |-> <<>>]
    /\ recorderRef = 0
    /\ chunksRef = <<>>
    /\ stream = 0
    /\ isRecording = FALSE
    /\ isModelLoading = FALSE
    /\ isAnalyzing = FALSE
    /\ apiKey = NoKey
    /\ status = StTranscribing
    /\ transcription = 0
    /\ analysis = 0
    /\ transcriberRef = TRUE
    /\ modelPc = "ready"
    /\ view = Snapshot(FALSE, FALSE, FALSE, NoKey, 0)
    /\ stopThrew = FALSE
    /\ \E c \in ChannelCounts, n \in 0 .. MaxFrames :
           decoded \in DecodedBuffers(c, n)
    /\ audio = <<>>
    /\ dmI = 0
    /\ dmPc = "decoded"

\* The branch on numberOfChannels: the stereo branch allocates audio and
\* enters the loop, the other takes channel 0 as it is.
DownmixBranch ==
    /\ dmPc = "decoded"
    /\ IF decoded.numberOfChannels = 2
       THEN /\ audio' = Zeros(Len(decoded.channels[1]))
            /\ dmI' = 0
            /\ dmPc' = "loop"
       ELSE /\ audio' = decoded.channels[1]
            /\ dmPc' = "done"
            /\ UNCHANGED dmI
    /\ UNCHANGED <<decoded, programVars, stopThrew>>

\* DownmixIteration that stops one frame short.
DownmixIterationShort ==
    /\ dmPc = "loop"
    /\ IF dmI + 1 < decoded.length
       THEN /\ audio' = [audio EXCEPT ![dmI + 1] =
                            ScaledSum(decoded.channels[1][dmI + 1],
                                      decoded.channels[2][dmI + 1])]
            /\ dmI' = dmI + 1
            /\ UNCHANGED dmPc
       ELSE /\ dmPc' = "done"
            /\ UNCHANGED <<audio, dmI>>
    /\ UNCHANGED <<decoded, programVars, stopThrew>>

\* One test of i < decoded.length and, if it holds, one pass of the body
\* (index i of the code is index dmI + 1 here).
DownmixIteration ==
    /\ dmPc = "loop"
    /\ IF dmI < decoded.length
       THEN /\ audio' = [audio EXCEPT ![dmI + 1] =
                            ScaledSum(decoded.channels[1][dmI + 1],
                                      decoded.channels[2][dmI + 1])]
            /\ dmI' = dmI + 1
            /\ UNCHANGED dmPc
       ELSE /\ dmPc' = "done"
            /\ UNCHANGED <<audio, dmI>>
    /\ UNCHANGED <<decoded, programVars, stopThrew>>

NextDownmix ==
    \/ DownmixBranch
    \/ DownmixIteration

SpecDownmix == InitDownmix /\ [][NextDownmix]_vars

(***************************************************************************)
(* Claims.                                                                 *)
(***************************************************************************)

\* Phases in which a session is Recording or in its decode/transcribe/analyze
\* chain.
ActivePhases == {"recording", "stopping", "decoding", "transcribing", "analyzing"}

Finished(s) == pc[s] \in {"done", "error"}

\* C1: at most one session is active at a time: never is a second session
\* recording or in its chain while another has not reached Done or Error.
OneSessionAtATime ==
    Cardinality({s \in Sessions : pc[s] \in ActivePhases}) <= 1

\* C2: while a session is Analyzing no new session is created: no start is
\* accepted and no session enters Recording (microphone acquired, recorder
\* created, chunk sequence reset, isRecording set).
NoSessionWhileAnalyzing ==
    [][(\E a \in Sessions : pc[a] = "analyzing" /\ pc'[a] = "analyzing")
        => \A s \in Sessions :
            /\ pc[s] = "idle" => pc'[s] = "idle"
            /\ pc'[s] = "recording" => pc[s] = "recording"]_vars

\* C3: the step in which any stage of a session fails publishes that
\* failure's message as the status text.
FailurePublishesMessage ==
    [][\A s \in Sessions :
        (pc[s] # "error" /\ pc'[s] = "error") => status' = StTranscriptionError]_vars

\* C4: a stop call never raises an error: a stop that finds the recorder no
\* longer recording is a no-op.
StopNeverThrows == stopThrew = FALSE

\* C5: whenever no session is Recording, no acquired microphone stream is
\* left unreleased.
MicrophoneHeldOnlyWhileRecording ==
    (\A s \in Sessions : pc[s] # "recording")
        => \A s \in Sessions : streamLive[s] # "live"

\* C6: an analysis call whose credential is empty fails with ConfigError in
\* the step it is made, issues no network call and leaves isAnalyzing as it
\* was; such a session never has a request or a response.
EmptyCredentialFailsBeforeCall ==
    /\ [](\A s \in Sessions : errKind[s] = "ConfigError"
            => calls[s] = 0 /\ resp[s] = "none" /\ cred[s] = NoKey)
    /\ [][\A s \in Sessions :
            (/\ pc[s] = "transcribing"
             /\ cred[s] = NoKey
             /\ pc'[s] # "transcribing"
             /\ errKind'[s] # "TranscriptionError")
            => /\ pc'[s] = "error"
               /\ errKind'[s] = "ConfigError"
               /\ calls' = calls
               /\ isAnalyzing' = isAnalyzing]_vars

\* C6 witness: an analysis call with an empty credential has been made.
EmptyCredentialInvoked ==
    \E s \in Sessions : pc[s] = "error" /\ errKind[s] = "ConfigError"

\* An analysis call with a non-empty credential has been made by session s.
InvokedWithKey(s) ==
    /\ cred[s] # NoKey
    /\ \/ pc[s] \in {"analyzing", "done"}
       \/ pc[s] = "error" /\ errKind[s] \in {"NetworkError", "ServiceError", "FormatError"}

\* C7: every analysis call with a non-empty credential has issued exactly one
\* network call, whatever came back, and no other call has issued any.
OneCallPerInvocation ==
    \A s \in Sessions : calls[s] = IF InvokedWithKey(s) THEN 1 ELSE 0

\* C7 witness: one call ended in a non-success status, another succeeded.
FailedAndSucceededCalls ==
    \E s, t \in Sessions : resp[s] = "http" /\ resp[t] = "ok"

\* C8: a non-2xx response ends the call with ServiceError and an unparseable
\* 2xx body with FormatError; that step publishes no result, and the
\* published analysis is never that session's.
BadResponseFailsUnpublished ==
    /\ [](\A s \in Sessions : resp[s] \in {"http", "badjson"} => analysis # s)
    /\ [][\A s \in Sessions :
            (pc[s] = "analyzing" /\ resp'[s] \in {"http", "badjson"})
            => /\ pc'[s] = "error"
               /\ errKind'[s] = (IF resp'[s] = "http" THEN "ServiceError" ELSE "FormatError")
               /\ analysis' = analysis]_vars

\* C8 witness: a result is published and a later call got an unparseable body.
PublishedThenBadResponse ==
    \E s, t \in Sessions :
        analysis = s /\ resp[t] = "badjson" /\ errKind[t] = "FormatError"

\* C9: once every started session has reached Done or Error, the model is
\* loaded, a credential is present and the render is current, the button is
\* enabled and starts a recording.
RecordControlReenabled ==
    (/\ Started # {}
     /\ \A s \in Started : Finished(s)
     /\ ~isModelLoading
     /\ apiKey # NoKey
     /\ view = Snapshot(isRecording, isModelLoading, isAnalyzing, apiKey, stream))
    => ~Disabled /\ ~view.isRecording

\* C10: a session that is Recording or later in its pipeline has the
\* transcriber initialised, and no pipeline finds it uninitialised.
TranscriberLoadedBeforeRecording ==
    \A s \in Sessions :
        /\ pc[s] \in ActivePhases \cup {"done", "error"} => transcriberRef
        /\ errKind[s] # "TranscriberNotInitialized"

\* C10 witness: a session has reached the transcription stage.
TranscriptionStageReached ==
    \E s \in Sessions : pc[s] = "transcribing"

\* C11: once the downmix is done, a stereo buffer has given an output of the
\* channel length whose every sample is sqrt(2) * (L[i] + R[i]) / 2, and a
\* mono buffer has given its channel unchanged.
DownmixElementWise ==
    dmPc = "done" =>
        /\ decoded.numberOfChannels = 2 =>
            /\ Len(audio) = decoded.length
            /\ \A i \in 1 .. decoded.length :
                2 * 1000 * audio[i] =
                    Sqrt2Milli * (decoded.channels[1][i] + decoded.channels[2][i])
        /\ decoded.numberOfChannels = 1 => audio = decoded.channels[1]

\* C11 witness: a stereo buffer of full length with a non-zero sum has been
\* downmixed.
StereoDownmixed ==
    /\ dmPc = "done"
    /\ decoded.numberOfChannels = 2
    /\ decoded.length = MaxFrames
    /\ \A i \in 1 .. MaxFrames : audio[i] # 0

\* C12: once the downmix is done, every sample handed to the transcriber is
\* within [-1, 1].
DownmixWithinUnitRange ==
    dmPc = "done" =>
        \A i \in 1 .. Len(audio) : audio[i] >= -SampleOne /\ audio[i] <= SampleOne

\* C13: the stages after stop run as one chain in the order decode,
\* transcribe, analyze, publish.  In every step and for every session: the
\* transcriber is called only by the step in which decoding succeeded, the
\* analysis request goes out only in the step in which the transcriber
\* returned, its input is the transcript that step publishes, and the
\* analysis result is published only by the step in which the request of
\* that session returned successfully.
ChainInOrder ==
    [][\A s \in Sessions :
        /\ (pc'[s] = "decoding" /\ pc[s] # "decoding")
               => pc[s] \in {"recording", "stopping"}
        /\ (pc'[s] = "transcribing" /\ pc[s] # "transcribing")
               => pc[s] = "decoding"
        /\ (\/ request'[s] # request[s]
            \/ (pc'[s] = "analyzing" /\ pc[s] # "analyzing"))
               => /\ pc[s] = "transcribing"
                  /\ pc'[s] = "analyzing"
                  /\ transcription' = s
                  /\ request'[s].text = transcription'
        /\ (pc'[s] = "done" /\ pc[s] # "done")
               => /\ pc[s] = "analyzing"
                  /\ resp'[s] = "ok"
                  /\ analysis' = s
        /\ (analysis' = s /\ analysis # s)
               => /\ pc[s] = "analyzing"
                  /\ pc'[s] = "done"
                  /\ resp'[s] = "ok"]_vars

\* C13 witness: a session went through the whole chain and its analysis
\* result is published.
ChainCompleted ==
    \E s \in Sessions :
        /\ pc[s] = "done"
        /\ analysis = s
        /\ request[s].text = s

\* The step in which the transcriber call of session s fails: the session
\* leaves the transcription stage and its transcript is not published.
TranscriptionFails(s) ==
    /\ pc[s] = "transcribing"
    /\ pc'[s] # "transcribing"
    /\ transcription' # s

\* C14 as stated: when the transcription call fails the session has no
\* valid transcript and the analysis is still invoked (the analysis stage is
\* entered after the TranscriptionError).
TranscriptionFailureEntersAnalysis ==
    [][\A s \in Sessions :
        TranscriptionFails(s)
            => /\ transcription' # s
               /\ \/ pc'[s] = "analyzing"
                  \/ request'[s] # NoRequest
                  \/ errKind'[s] = "ConfigError"]_vars

\* C14 amended: when the transcription call fails the status shows the
\* transcription error, the chunks are reset, no transcript is published, and
\* the chain ends there in Error: the analysis is not invoked for that
\* session, in that step or later (result.text throws first).
TranscriptionFailureEndsChain ==
    [][\A s \in Sessions :
        /\ TranscriptionFails(s)
               => /\ pc'[s] = "error"
                  /\ errKind'[s] = "TranscriptionError"
                  /\ status' = StTranscriptionError
                  /\ chunksRef' = <<>>
                  /\ UNCHANGED <<transcription, analysis, request, calls,
                                 isAnalyzing>>
        /\ errKind[s] = "TranscriptionError"
               => /\ pc'[s] = "error"
                  /\ errKind'[s] = "TranscriptionError"
                  /\ request'[s] = NoRequest
                  /\ calls'[s] = 0]_vars

\* C14 witness: a session whose transcription failed.
TranscriptionFailed ==
    \E s \in Sessions :
        /\ pc[s] = "error"
        /\ errKind[s] = "TranscriptionError"
        /\ transcription # s
        /\ request[s] = NoRequest

\* The stages a session is in from the stop command to the end of its chain.
ChainPhases == {"stopping", "decoding", "transcribing", "analyzing"}

\* A step of a user command: setCredential, an accepted stop, or an accepted
\* start (its click or the continuation after getUserMedia).
CommandStep ==
    \/ apiKey' # apiKey
    \/ isRecording' # isRecording
    \/ \E t \in Sessions : pc[t] \in {"idle", "acquiring"} /\ pc'[t] # pc[t]

ChunksOf(s, q) == Cardinality({i \in DOMAIN q : q[i] = s})

\* C16: the blob decoded for a session is made of exactly the non-empty
\* chunks its own recorder captured between its start and its stop.  No chunk
\* is lost: once captured, a chunk of a session stays in the chunk sequence
\* until the session's blob is built, and the blob holds them all.  No chunk
\* of another recorder is in the blob.
BlobIsOwnChunks ==
    [][\A s \in Sessions :
        /\ (pc[s] = "stopping" /\ pc'[s] = "stopping")
               => ChunksOf(s, chunksRef') >= ChunksOf(s, chunksRef)
        /\ (pc'[s] = "decoding" /\ pc[s] # "decoding")
               => /\ ChunksOf(s, blob'[s]) >= ChunksOf(s, chunksRef)
                  /\ \A i \in DOMAIN blob'[s] : blob'[s][i] = s]_vars

\* C17: the credential a session's analysis request carries is the one that
\* was current when its start command was accepted.  The start is accepted
\* only with a credential present and records it for the session; no later
\* step, setCredential included, changes it; the request carries it; and no
\* session fails with ConfigError.
RequestCarriesStartCredential ==
    /\ [](\A s \in Sessions :
            /\ request[s] # NoRequest
                   => request[s].key = cred[s] /\ cred[s] # NoKey
            /\ errKind[s] # "ConfigError")
    /\ [][\A s \in Sessions :
            /\ (pc[s] = "idle" /\ pc'[s] # "idle")
                   => cred'[s] = apiKey /\ apiKey # NoKey
            /\ pc[s] # "idle" => cred'[s] = cred[s]]_vars

\* C17 witness: the analysis request of a session went out with the
\* credential of its start, after the credential had been cleared.
RequestSentAfterCredentialCleared ==
    \E s \in Sessions :
        /\ request[s] # NoRequest
        /\ request[s].key # NoKey
        /\ apiKey = NoKey
        /\ pc[s] = "analyzing"
        /\ view.isAnalyzing = FALSE

\* C18: isAnalyzing is true only while an analysis request is outstanding.
\* It is true only when some session's request is in flight; it is set in
\* the step that issues a request; and the step in which a request returns,
\* with whatever outcome, leaves it false.
AnalyzingOnlyWhileOutstanding ==
    /\ [](isAnalyzing => \E s \in Sessions : pc[s] = "analyzing")
    /\ [][\A s \in Sessions :
            /\ calls'[s] # calls[s] => isAnalyzing' /\ pc'[s] = "analyzing"
            /\ (pc[s] = "analyzing" /\ pc'[s] # "analyzing")
                   => /\ ~isAnalyzing'
                      /\ resp'[s] \in Responses]_vars

\* C18 witness: a request failed, no request is outstanding and the flag is
\* cleared.
FlagClearedAfterFailure ==
    /\ ~isAnalyzing
    /\ \A s \in Sessions : pc[s] # "analyzing"
    /\ \E s \in Sessions :
        /\ pc[s] = "error"
        /\ calls[s] = 1
        /\ resp[s] \in Responses \ {"ok"}

\* A step of a start, of a chunk capture or of a stop.
CaptureStep ==
    \/ isRecording' # isRecording
    \/ Len(chunksRef') > Len(chunksRef)
    \/ \E t \in Sessions :
        /\ pc[t] \in {"idle", "acquiring", "recording", "stopping"}
        /\ pc'[t] # pc[t]

\* C19: start, chunk capture and stop leave the published transcript and
\* analysis result unchanged.  The transcript changes only in the step in
\* which a session's transcription succeeds, to that session's transcript,
\* and the analysis result only in the step in which a session's analysis
\* succeeds, to that session's result; so a session whose analysis failed
\* after its transcript was published never has its result published.
PublishedOnlyBySuccess ==
    /\ [][/\ CaptureStep => UNCHANGED <<transcription, analysis>>
          /\ transcription' # transcription
                 => \E s \in Sessions :
                        /\ pc[s] = "transcribing"
                        /\ pc'[s] = "analyzing"
                        /\ transcription' = s
          /\ analysis' # analysis
                 => \E s \in Sessions :
                        /\ pc[s] = "analyzing"
                        /\ pc'[s] = "done"
                        /\ resp'[s] = "ok"
                        /\ analysis' = s]_vars
    /\ [](\A s \in Sessions :
            (pc[s] = "error" /\ transcription = s) => analysis # s)

\* C19 witness: the analysis of a later session failed, and the published
\* transcript is that session's while the published analysis result is the
\* earlier session's.
PublishedFromDifferentSessions ==
    \E s, t \in Sessions :
        /\ s < t
        /\ pc[s] = "done"
        /\ analysis = s
        /\ pc[t] = "error"
        /\ resp[t] \in Responses \ {"ok"}
        /\ transcription = t

====
